---- MODULE Spec2Model ----
(***************************************************************************)
(* Model of the checkpointed work-partitioning engine of ffapipe:          *)
(* src/src_scripts/wkr_manager.py (PipelineWorker.__call__ and             *)
(* PipelineManager.process).                                               *)
(*                                                                         *)
(* A date directory holds files (Items, named 1..n in listing order).      *)
(* Each rank keeps a pickled history log <date>.history_<rank>.log whose   *)
(* first record is the pickled configuration (HDR) and whose later records *)
(* are the metadata of processed files (modelled by the file name).        *)
(* Peers are separate processes: every filesystem operation of a worker    *)
(* is one step, and the steps of different workers interleave freely.      *)
(***************************************************************************)
EXTENDS Integers, Sequences, FiniteSets, TLC

\* ---- bounds of the model --------------------------------------------------
MaxItems == 2
MaxRanks == 3
MaxRuns == 3
MaxDates == 3
MaxPoolItems == 1
MaxWidth == 2
MaxPartItems == 10
MaxPartRanks == 4
MaxOnceItems == 3
MaxDetectItems == 3
MaxRfiFiles == 3
MaxArg == 2
MaxCpu == 2

\* The pickled configuration object that heads a history log (line 193).
HDR == 0

VARIABLES
    analysis_dates,  \* config.analysis_dates: the sequence of dates to process
    dirs,            \* date -> [raw, fil]: number of *.raw and *.fil files in store_path/date
    NRANKS,          \* config.NRANKS of the current run
    run,             \* number of the current run (1-based)
    logs,            \* date -> (rank name -> sequence of records): the history logs that exist
    filelist,        \* date -> sequence of item names: the human readable ledger
    wk,              \* date -> (rank -> local state of PipelineWorker.__call__)
    prev,            \* history: date -> items whose record was appended in an earlier run
    appended,        \* history: date -> items whose record was appended in any run so far
    processed,       \* history: date -> set of <<rank, item>> processed in the current run
    futures,         \* pool: date -> state of the future of Worker(date)
    pool             \* pool: state of PipelineManager.process of the modelled peer

vars == <<analysis_dates, dirs, NRANKS, run, logs, filelist, wk, prev, appended,
          processed, futures, pool>>

\* ---- helpers ----------------------------------------------------------------
Min(a, b) == IF a < b THEN a ELSE b

Range(s) == {s[i] : i \in 1..Len(s)}

\* Python's s[a:b] for 0 <= a, 0 <= b (both ends clamp to the list).
PySlice(s, a, b) == SubSeq(s, Min(a, Len(s)) + 1, Min(b, Len(s)))

\* The ranks of a set in ascending order, as a sequence.
RECURSIVE SortedSeq(_)
SortedSeq(S) ==
    IF S = {} THEN <<>>
    ELSE LET m == CHOOSE x \in S : \A y \in S : x <= y
         IN <<m>> \o SortedSeq(S \ {m})

\* filter_by_ext(path, extension): the files of a directory with that extension,
\* in listing order. Files carry the names 1..n.
filter_by_ext(dir, extension) ==
    [i \in 1..(IF extension = ".raw" THEN dir.raw ELSE dir.fil) |-> i]

\* A detection that looks at the filterbank files first.
raw_or_fil_FilFirst(dir) ==
    IF Len(filter_by_ext(dir, ".fil")) > 0 THEN ".fil"
    ELSE IF Len(filter_by_ext(dir, ".raw")) > 0 THEN ".raw"
    ELSE "None"

\* PipelineWorker.raw_or_fil: ".raw" if a raw file exists, else ".fil" if a
\* filterbank file exists, else None.
raw_or_fil(dir) ==
    IF Len(filter_by_ext(dir, ".raw")) > 0 THEN ".raw"
    ELSE IF Len(filter_by_ext(dir, ".fil")) > 0 THEN ".fil"
    ELSE "None"

\* unpickler(path): the records of a pickle file, in order; nothing for a file
\* that does not exist.
unpickler(dlogs, rnk) == IF rnk \in DOMAIN dlogs THEN dlogs[rnk] ELSE <<>>

\* Lines 185-189: next() drops the first record of a log, the loop collects
\* the names of the records after it.
Collected(log) == IF log = <<>> THEN {} ELSE Range(Tail(log))

\* A rounding rule that always truncates the quotient, as int() alone does.
n_files_per_rank_floor(len, nranks) == len \div nranks

\* Lines 200-207: len(FILES) / NRANKS rounded up.
n_files_per_rank(len, nranks) ==
    IF len % nranks # 0 THEN (len \div nranks) + 1 ELSE len \div nranks

\* A slice rule that lets every rank but the first start one position early.
RankSliceOverlap(FILES, RANK, nranks) ==
    LET n == n_files_per_rank(Len(FILES), nranks)
        a == IF RANK * n = 0 THEN 0 ELSE RANK * n - 1
    IN IF RANK = nranks - 1 THEN PySlice(FILES, a, Len(FILES))
       ELSE PySlice(FILES, a, (RANK + 1) * n)

\* Lines 209-212: the slice of FILES owned by RANK.
RankSlice(FILES, RANK, nranks) ==
    LET n == n_files_per_rank(Len(FILES), nranks)
    IN IF RANK = nranks - 1 THEN PySlice(FILES, RANK * n, Len(FILES))
       ELSE PySlice(FILES, RANK * n, (RANK + 1) * n)

\* A filter that removes nothing.
RemoveProcessedNone(FILES, proc_files) == FILES

\* Line 197: FILES without the files already processed.
RemoveProcessed(FILES, proc_files) ==
    SelectSeq(FILES, LAMBDA F : F \notin proc_files)

\* ---- PipelineWorker.__call__ ------------------------------------------------
\* The local state of one call of the worker, at its entry.
NewWorker(pc) ==
    [pc |-> pc, EXT |-> "None", start_time |-> FALSE, FILES |-> <<>>,
     metas_file_list |-> <<>>, proc_files |-> {}, k |-> 0, line_count |-> 0,
     err |-> "none", nth |-> 0, logged |-> {}]

\* One entry of the date's log file as self.logger writes it (lines 96-100):
\* the logger's name, which is the date, and the message.
LogEntry(d, message) == [name |-> d, message |-> message]

\* The place of a failure among the failures of the workers of rank r so far
\* (history: the order in which the workers of one peer's pool raised).
NthFailure(r) ==
    1 + Cardinality({d \in DOMAIN wk : r \in DOMAIN wk[d] /\ wk[d][r].pc = "RAISED"})

Terminal(w) == w.pc \in {"DONE", "RAISED"}

\* Lines 132-149: paths, output directories, logger.
MakeDirs(d, r) ==
    /\ wk[d][r].pc = "INIT"
    /\ wk' = [wk EXCEPT ![d][r].pc = "DETECTING"]
    /\ UNCHANGED <<analysis_dates, dirs, NRANKS, run, logs, filelist, prev,
                   appended, processed, futures, pool>>

\* Lines 153-167: detect the source kind; with a source, read the start time
\* and list the files.
Detect(d, r) ==
    /\ wk[d][r].pc = "DETECTING"
    /\ LET EXT == raw_or_fil(dirs[d])
       IN wk' = [wk EXCEPT ![d][r] =
                    IF EXT # "None"
                    THEN [@ EXCEPT !.pc = "RECONCILING", !.EXT = EXT,
                                   !.start_time = TRUE,
                                   !.logged = @ \cup {LogEntry(d, "Start processing data")},
                                   !.FILES = filter_by_ext(dirs[d], EXT)]
                    ELSE [@ EXCEPT !.pc = "TIMING"]]
    /\ UNCHANGED <<analysis_dates, dirs, NRANKS, run, logs, filelist, prev,
                   appended, processed, futures, pool>>

\* Lines 173-175: glob the history logs of the date, of whatever rank; with
\* none, the names of the logs of ranks 0..NRANKS-1.
Glob(d, r) ==
    /\ wk[d][r].pc = "RECONCILING"
    /\ LET found == SortedSeq(DOMAIN logs[d])
           list == IF found = <<>> THEN [i \in 1..NRANKS |-> i - 1] ELSE found
       IN wk' = [wk EXCEPT ![d][r].metas_file_list = list, ![d][r].pc = "read"]
    /\ UNCHANGED <<analysis_dates, dirs, NRANKS, run, logs, filelist, prev,
                   appended, processed, futures, pool>>

\* A loop over the logs that ends after the first log of the list.
NextLogFirstOnly(w) ==
    [w EXCEPT !.metas_file_list = Tail(@), !.pc = "PARTITIONING"]

\* The position after one history log of the list is dealt with.
NextLog(w) ==
    [w EXCEPT !.metas_file_list = Tail(@),
              !.pc = IF Len(w.metas_file_list) > 1 THEN "read" ELSE "PARTITIONING"]

\* Lines 177-191: read one history log; drop its first record and collect the
\* names of the others; an empty log is to be initialised.
ReadLog(d, r) ==
    /\ wk[d][r].pc = "read"
    /\ LET w == wk[d][r]
           _metalist_ == unpickler(logs[d], Head(w.metas_file_list))
       IN wk' = [wk EXCEPT ![d][r] =
                    IF _metalist_ # <<>>
                    THEN NextLog([w EXCEPT !.proc_files = @ \cup Collected(_metalist_)])
                    ELSE [w EXCEPT !.pc = "write_hdr"]]
    /\ UNCHANGED <<analysis_dates, dirs, NRANKS, run, logs, filelist, prev,
                   appended, processed, futures, pool>>

\* Lines 192-194: open the log "wb+" (create or truncate) and pickle the
\* configuration into it.
WriteHeader(d, r) ==
    /\ wk[d][r].pc = "write_hdr"
    /\ LET w == wk[d][r]
           metas_file == Head(w.metas_file_list)
       IN /\ logs' = [logs EXCEPT ![d] =
                        [f \in DOMAIN logs[d] \cup {metas_file} |->
                            IF f = metas_file THEN <<HDR>> ELSE logs[d][f]]]
          /\ wk' = [wk EXCEPT ![d][r] = NextLog(w)]
    /\ UNCHANGED <<analysis_dates, dirs, NRANKS, run, filelist, prev,
                   appended, processed, futures, pool>>

\* Lines 196-214: remove the processed files and take this rank's slice.
Partition(d, r) ==
    /\ wk[d][r].pc = "PARTITIONING"
    /\ LET w == wk[d][r]
           mine == RankSlice(RemoveProcessed(w.FILES, w.proc_files), r, NRANKS)
       IN wk' = [wk EXCEPT ![d][r] =
                    [w EXCEPT !.FILES = mine, !.k = 0,
                              !.pc = IF mine = <<>> THEN "TIMING" ELSE "open"]]
    /\ UNCHANGED <<analysis_dates, dirs, NRANKS, run, logs, filelist, prev,
                   appended, processed, futures, pool>>

\* Line 226: open this rank's log "ab" and the ledger "a" (both are created
\* when missing).
OpenFiles(d, r) ==
    /\ wk[d][r].pc = "open"
    /\ logs' = [logs EXCEPT ![d] =
                  [f \in DOMAIN logs[d] \cup {r} |->
                      IF f \in DOMAIN logs[d] THEN logs[d][f] ELSE <<>>]]
    /\ wk' = [wk EXCEPT ![d][r].pc = "process"]
    /\ UNCHANGED <<analysis_dates, dirs, NRANKS, run, filelist, prev,
                   appended, processed, futures, pool>>

\* The file the loop of line 224 is at.
FILE(w) == w.FILES[w.k + 1]

\* Lines 230-247: filterbank.process() returns; the metadata and the ledger
\* line are written to the buffers of the two open files.
ProcessOk(d, r) ==
    /\ wk[d][r].pc = "process"
    /\ processed' = [processed EXCEPT ![d] = @ \cup {<<r, FILE(wk[d][r])>>}]
    /\ wk' = [wk EXCEPT ![d][r].pc = "close_list"]
    /\ UNCHANGED <<analysis_dates, dirs, NRANKS, run, logs, filelist, prev,
                   appended, futures, pool>>

\* Line 240: filterbank.process() raises; nothing is caught, the two files are
\* closed with nothing written and the exception leaves __call__.
ProcessFail(d, r) ==
    /\ wk[d][r].pc = "process"
    /\ wk' = [wk EXCEPT ![d][r].pc = "RAISED", ![d][r].err = "ItemProcessingError",
                         ![d][r].nth = NthFailure(r)]
    /\ UNCHANGED <<analysis_dates, dirs, NRANKS, run, logs, filelist, prev,
                   appended, processed, futures, pool>>

\* Exit of the with block of line 226, first half: the ledger, opened last, is
\* closed first and its line reaches the file.
CloseList(d, r) ==
    /\ wk[d][r].pc = "close_list"
    /\ filelist' = [filelist EXCEPT ![d] = Append(@, FILE(wk[d][r]))]
    /\ wk' = [wk EXCEPT ![d][r].pc = "close_mem"]
    /\ UNCHANGED <<analysis_dates, dirs, NRANKS, run, logs, prev,
                   appended, processed, futures, pool>>

\* Exit of the with block of line 226, second half: the history log is closed
\* and the pickled metadata is appended to the file.
CloseMem(d, r) ==
    /\ wk[d][r].pc = "close_mem"
    /\ logs' = [logs EXCEPT ![d][r] = Append(@, FILE(wk[d][r]))]
    /\ appended' = [appended EXCEPT ![d] = @ \cup {FILE(wk[d][r])}]
    /\ wk' = [wk EXCEPT ![d][r].pc = "count"]
    /\ UNCHANGED <<analysis_dates, dirs, NRANKS, run, filelist, prev,
                   processed, futures, pool>>

\* Lines 254-256: count the lines of the ledger and log the count; next file.
CountLines(d, r) ==
    /\ wk[d][r].pc = "count"
    /\ LET w == wk[d][r]
       IN wk' = [wk EXCEPT ![d][r] =
                    [w EXCEPT !.line_count = Len(filelist[d]), !.k = w.k + 1,
                              !.logged = @ \cup {LogEntry(d, "Number of beams processed so far")},
                              !.pc = IF w.k + 1 < Len(w.FILES) THEN "open" ELSE "TIMING"]]
    /\ UNCHANGED <<analysis_dates, dirs, NRANKS, run, logs, filelist, prev,
                   appended, processed, futures, pool>>

\* Lines 260-263: elapsed time from start_time, which is bound only when a
\* source was detected; reading it unbound raises UnboundLocalError.
Timing(d, r) ==
    /\ wk[d][r].pc = "TIMING"
    /\ wk' = [wk EXCEPT ![d][r] =
                 IF wk[d][r].start_time
                 THEN [@ EXCEPT !.pc = "DONE",
                                !.logged = @ \cup {LogEntry(d, "Done processing date"),
                                                   LogEntry(d, "Total processing time")}]
                 ELSE [@ EXCEPT !.pc = "RAISED", !.err = "UnboundLocalError",
                                !.nth = NthFailure(r)]]
    /\ UNCHANGED <<analysis_dates, dirs, NRANKS, run, logs, filelist, prev,
                   appended, processed, futures, pool>>

\* One step of the worker of date d on rank r.
WorkerStep(d, r) ==
    \/ MakeDirs(d, r)
    \/ Detect(d, r)
    \/ Glob(d, r)
    \/ ReadLog(d, r)
    \/ WriteHeader(d, r)
    \/ Partition(d, r)
    \/ OpenFiles(d, r)
    \/ ProcessOk(d, r)
    \/ ProcessFail(d, r)
    \/ CloseList(d, r)
    \/ CloseMem(d, r)
    \/ CountLines(d, r)
    \/ Timing(d, r)

\* ---- runs of one date by all the peers ----------------------------------------
Dates == 1..MaxDates

\* The state of the pool where PipelineManager.process is not modelled.
NoFutures == [d \in {1} |-> "none"]

NoPool == [pc |-> "none", i |-> 0, width |-> 0, exc |-> "none"]

\* mpirun starts n peers, each of which calls the Worker on the date.
BeginRun(n) ==
    /\ run < MaxRuns
    /\ \A d \in DOMAIN wk : \A r \in DOMAIN wk[d] : Terminal(wk[d][r])
    /\ NRANKS' = n
    /\ wk' = [d \in DOMAIN wk |-> [r \in 0..(n - 1) |-> NewWorker("INIT")]]
    /\ run' = run + 1
    /\ prev' = appended
    /\ processed' = [d \in DOMAIN processed |-> {}]
    /\ UNCHANGED <<analysis_dates, dirs, logs, filelist, appended, futures, pool>>

\* A new run, with any number of peers, once the peers of the previous run
\* have all terminated.
StartRun == \E n \in 1..MaxRanks : BeginRun(n)

\* A new run with another number of peers than the previous run.
StartRunChanged == \E n \in (1..MaxRanks) \ {NRANKS} : BeginRun(n)

\* A new run after a run in which every peer ended without an exception.
StartRunAfterClean ==
    /\ \A d \in DOMAIN wk : \A r \in DOMAIN wk[d] : wk[d][r].pc = "DONE"
    /\ \E n \in 1..MaxRanks : BeginRun(n)

Init ==
    /\ analysis_dates = <<1>>
    /\ \E n \in 0..MaxItems : dirs = [d \in {1} |-> [raw |-> 0, fil |-> n]]
    /\ NRANKS \in 1..MaxRanks
    /\ run = 1
    /\ logs = [d \in {1} |-> <<>>]
    /\ filelist = [d \in {1} |-> <<>>]
    /\ wk = [d \in {1} |-> [r \in 0..(NRANKS - 1) |-> NewWorker("INIT")]]
    /\ prev = [d \in {1} |-> {}]
    /\ appended = [d \in {1} |-> {}]
    /\ processed = [d \in {1} |-> {}]
    /\ futures = NoFutures
    /\ pool = NoPool

Next ==
    \/ \E d \in DOMAIN wk : \E r \in DOMAIN wk[d] : WorkerStep(d, r)
    \/ StartRun

Spec == Init /\ [][Next]_vars

\* One schedule among those of Next: the peers of a run execute one after
\* another, a peer taking steps only while every other peer has not started
\* or has ended.
Quiet(d, r) ==
    \A q \in DOMAIN wk[d] : q # r => (wk[d][q].pc = "INIT" \/ Terminal(wk[d][q]))

SerialStep(d, r) == Quiet(d, r) /\ WorkerStep(d, r)

NextSerial ==
    \/ \E d \in DOMAIN wk : \E r \in DOMAIN wk[d] : SerialStep(d, r)
    \/ StartRun

SpecSerial == Init /\ [][NextSerial]_vars

\* Runs that each change the number of peers, the peers of a run executing
\* one after another.
NextResume ==
    \/ \E d \in DOMAIN wk : \E r \in DOMAIN wk[d] : SerialStep(d, r)
    \/ StartRunChanged

SpecResume == Init /\ [][NextResume]_vars

\* Runs that each follow a run that ended cleanly on every peer, the peers of
\* a run executing one after another.
NextRerun ==
    \/ \E d \in DOMAIN wk : \E r \in DOMAIN wk[d] : SerialStep(d, r)
    \/ StartRunAfterClean

SpecRerun == Init /\ [][NextRerun]_vars

\* ---- one run of a date with more items ---------------------------------------------
\* The first run of a date of up to MaxOnceItems files by all the peers.
InitOnce ==
    /\ analysis_dates = <<1>>
    /\ \E n \in 0..MaxOnceItems : dirs = [d \in {1} |-> [raw |-> 0, fil |-> n]]
    /\ NRANKS \in 1..MaxRanks
    /\ run = 1
    /\ logs = [d \in {1} |-> <<>>]
    /\ filelist = [d \in {1} |-> <<>>]
    /\ wk = [d \in {1} |-> [r \in 0..(NRANKS - 1) |-> NewWorker("INIT")]]
    /\ prev = [d \in {1} |-> {}]
    /\ appended = [d \in {1} |-> {}]
    /\ processed = [d \in {1} |-> {}]
    /\ futures = NoFutures
    /\ pool = NoPool

NextOnce == \E d \in DOMAIN wk : \E r \in DOMAIN wk[d] : WorkerStep(d, r)

SpecOnce == InitOnce /\ [][NextOnce]_vars

\* ---- detection on its own ------------------------------------------------------------
\* A date directory with any numbers of raw and filterbank files; the workers
\* go as far as the detection of the source and the listing of its files.
InitDetect ==
    /\ analysis_dates = <<1>>
    /\ \E a \in 0..MaxDetectItems : \E b \in 0..MaxDetectItems :
          dirs = [d \in {1} |-> [raw |-> a, fil |-> b]]
    /\ NRANKS \in 1..2
    /\ run = 1
    /\ logs = [d \in {1} |-> <<>>]
    /\ filelist = [d \in {1} |-> <<>>]
    /\ wk = [d \in {1} |-> [r \in 0..(NRANKS - 1) |-> NewWorker("INIT")]]
    /\ prev = [d \in {1} |-> {}]
    /\ appended = [d \in {1} |-> {}]
    /\ processed = [d \in {1} |-> {}]
    /\ futures = NoFutures
    /\ pool = NoPool

NextDetect ==
    \E d \in DOMAIN wk : \E r \in DOMAIN wk[d] : MakeDirs(d, r) \/ Detect(d, r)

SpecDetect == InitDetect /\ [][NextDetect]_vars

\* ---- the partitioning rule on its own -------------------------------------------
\* Every rank is about to partition the same list: the n files of the date
\* less the first c, which the history logs name as processed.
InitPart ==
    /\ analysis_dates = <<1>>
    /\ \E n \in 1..MaxPartItems : dirs = [d \in {1} |-> [raw |-> 0, fil |-> n]]
    /\ NRANKS \in 1..MaxPartRanks
    /\ run = 1
    /\ logs = [d \in {1} |-> <<>>]
    /\ filelist = [d \in {1} |-> <<>>]
    /\ \E c \in 0..dirs[1].fil :
          wk = [d \in {1} |-> [r \in 0..(NRANKS - 1) |->
                  [NewWorker("PARTITIONING") EXCEPT
                      !.EXT = ".fil", !.start_time = TRUE,
                      !.logged = {LogEntry(1, "Start processing data")},
                      !.FILES = filter_by_ext(dirs[1], ".fil"),
                      !.proc_files = 1..c]]]
    /\ prev = [d \in {1} |-> {}]
    /\ appended = [d \in {1} |-> {}]
    /\ processed = [d \in {1} |-> {}]
    /\ futures = NoFutures
    /\ pool = NoPool

NextPart == \E d \in DOMAIN wk : \E r \in DOMAIN wk[d] : Partition(d, r)

SpecPart == InitPart /\ [][NextPart]_vars

\* ---- PipelineManager.process ------------------------------------------------------
\* concurrent.futures.process.EXTRA_QUEUED_CALLS: the call queue of a
\* ProcessPoolExecutor holds max_workers + 1 calls.
EXTRA_QUEUED_CALLS == 1

\* The rank of the one peer whose pool is modelled.
RANK == CHOOSE r \in DOMAIN wk[analysis_dates[1]] : TRUE

WithState(st) == {d \in DOMAIN futures : futures[d] = st}

\* Lines 291-292: Pool() and pool.map, which submits one call of the Worker
\* per date of analysis_dates before its first result is asked for.
Submit ==
    /\ pool.pc = "enter"
    /\ futures' = [d \in DOMAIN futures |-> "PENDING"]
    /\ pool' = [pool EXCEPT !.pc = "map", !.i = 1]
    /\ UNCHANGED <<analysis_dates, dirs, NRANKS, run, logs, filelist, wk, prev,
                   appended, processed>>

\* The executor moves the oldest pending call into its call queue when the
\* queue has room; from then on the future cannot be cancelled.
Enqueue ==
    /\ pool.pc \in {"map", "shutdown"}
    /\ Cardinality(WithState("QUEUED") \cup WithState("RUNNING"))
          < pool.width + EXTRA_QUEUED_CALLS
    /\ \E j \in 1..Len(analysis_dates) :
         /\ futures[analysis_dates[j]] = "PENDING"
         /\ \A h \in 1..(j - 1) : futures[analysis_dates[h]] # "PENDING"
         /\ futures' = [futures EXCEPT ![analysis_dates[j]] = "QUEUED"]
    /\ UNCHANGED <<analysis_dates, dirs, NRANKS, run, logs, filelist, wk, prev,
                   appended, processed, pool>>

\* A free process of the pool takes the oldest queued call and calls the Worker.
Dispatch ==
    /\ Cardinality(WithState("RUNNING")) < pool.width
    /\ \E j \in 1..Len(analysis_dates) :
         LET d == analysis_dates[j]
         IN /\ futures[d] = "QUEUED"
            /\ \A h \in 1..(j - 1) : futures[analysis_dates[h]] # "QUEUED"
            /\ futures' = [futures EXCEPT ![d] = "RUNNING"]
            /\ wk' = [wk EXCEPT ![d][RANK] = NewWorker("INIT")]
    /\ UNCHANGED <<analysis_dates, dirs, NRANKS, run, logs, filelist, prev,
                   appended, processed, pool>>

\* The call of the Worker has returned or raised: the future gets its result.
Finish(d) ==
    /\ futures[d] = "RUNNING"
    /\ Terminal(wk[d][RANK])
    /\ futures' = [futures EXCEPT ![d] =
                      IF wk[d][RANK].pc = "DONE" THEN "FINISHED" ELSE "FAILED"]
    /\ UNCHANGED <<analysis_dates, dirs, NRANKS, run, logs, filelist, wk, prev,
                   appended, processed, pool>>

\* Line 292: the list comprehension takes the next result of pool.map, in the
\* order of analysis_dates.
Collect ==
    /\ pool.pc = "map"
    /\ pool.i <= Len(analysis_dates)
    /\ futures[analysis_dates[pool.i]] = "FINISHED"
    /\ pool' = [pool EXCEPT !.i = @ + 1]
    /\ UNCHANGED <<analysis_dates, dirs, NRANKS, run, logs, filelist, wk, prev,
                   appended, processed, futures>>

\* A result iterator that raises the exception of whichever future has
\* failed, as iterating over as_completed() would, whatever its place in the
\* list.
CollectRaiseAny ==
    /\ pool.pc = "map"
    /\ \E j \in 1..Len(analysis_dates) :
         /\ futures[analysis_dates[j]] = "FAILED"
         /\ pool' = [pool EXCEPT !.pc = "shutdown", !.i = j,
                                 !.exc = wk[analysis_dates[j]][RANK].err]
    /\ futures' = [d \in DOMAIN futures |->
                      IF futures[d] = "PENDING" THEN "CANCELLED" ELSE futures[d]]
    /\ UNCHANGED <<analysis_dates, dirs, NRANKS, run, logs, filelist, wk, prev,
                   appended, processed>>

\* Line 292: the next result of pool.map is an exception: the iterator cancels
\* the futures that are still pending and the exception leaves the
\* comprehension.
CollectRaise ==
    /\ pool.pc = "map"
    /\ pool.i <= Len(analysis_dates)
    /\ futures[analysis_dates[pool.i]] = "FAILED"
    /\ futures' = [d \in DOMAIN futures |->
                      IF futures[d] = "PENDING" THEN "CANCELLED" ELSE futures[d]]
    /\ pool' = [pool EXCEPT !.pc = "shutdown",
                            !.exc = wk[analysis_dates[pool.i]][RANK].err]
    /\ UNCHANGED <<analysis_dates, dirs, NRANKS, run, logs, filelist, wk, prev,
                   appended, processed>>

\* Line 292: every result was taken; the with block is left.
MapDone ==
    /\ pool.pc = "map"
    /\ pool.i > Len(analysis_dates)
    /\ pool' = [pool EXCEPT !.pc = "shutdown"]
    /\ UNCHANGED <<analysis_dates, dirs, NRANKS, run, logs, filelist, wk, prev,
                   appended, processed, futures>>

\* An exit of the with block that does not wait, as shutdown(wait=False).
ShutdownNoWait ==
    /\ pool.pc = "shutdown"
    /\ pool' = [pool EXCEPT !.pc = IF pool.exc = "none" THEN "returned" ELSE "raised"]
    /\ UNCHANGED <<analysis_dates, dirs, NRANKS, run, logs, filelist, wk, prev,
                   appended, processed, futures>>

\* Line 291: exit of the with block, shutdown(wait=True): process returns, or
\* raises the exception it holds, once no call is queued or running.
Shutdown ==
    /\ pool.pc = "shutdown"
    /\ WithState("PENDING") \cup WithState("QUEUED") \cup WithState("RUNNING") = {}
    /\ pool' = [pool EXCEPT !.pc = IF pool.exc = "none" THEN "returned" ELSE "raised"]
    /\ UNCHANGED <<analysis_dates, dirs, NRANKS, run, logs, filelist, wk, prev,
                   appended, processed, futures>>

\* The contents a date directory may have.
DirKinds == [raw : 0..MaxPoolItems, fil : 0..MaxPoolItems]

\* The date lists of the configuration: dates 1..n.
DateLists == {[j \in 1..n |-> j] : n \in 1..MaxDates}

InitPool ==
    /\ analysis_dates \in DateLists
    /\ dirs \in [Range(analysis_dates) -> DirKinds]
    /\ NRANKS \in 1..2
    /\ run = 1
    /\ logs = [d \in Range(analysis_dates) |-> <<>>]
    /\ filelist = [d \in Range(analysis_dates) |-> <<>>]
    /\ \E r \in {0, NRANKS - 1} :
          wk = [d \in Range(analysis_dates) |-> [q \in {r} |-> NewWorker("idle")]]
    /\ prev = [d \in Range(analysis_dates) |-> {}]
    /\ appended = [d \in Range(analysis_dates) |-> {}]
    /\ processed = [d \in Range(analysis_dates) |-> {}]
    /\ futures = [d \in Range(analysis_dates) |-> "none"]
    /\ \E w \in 1..MaxWidth : pool = [pc |-> "enter", i |-> 0, width |-> w, exc |-> "none"]

NextPool ==
    \/ Submit
    \/ Enqueue
    \/ Dispatch
    \/ \E d \in DOMAIN futures : Finish(d)
    \/ Collect
    \/ CollectRaise
    \/ MapDone
    \/ Shutdown
    \/ \E d \in DOMAIN wk : WorkerStep(d, RANK)

SpecPool == InitPool /\ [][NextPool]_vars

\* ---- rfi_filter_filtool.main ----------------------------------------------------------
\* The local state of main on one rank, before the files are distributed.
\* An option that is not given is None, which is false as 0 is.
NewMain(workers, threads, cpu_count) ==
    [pc |-> "slice", args |-> [workers |-> workers, threads |-> threads],
     cpu_count |-> cpu_count, fil_files |-> <<>>, nprocess |-> 0, nthreads |-> 0,
     err |-> "none"]

\* Line 96: fil_dir.glob("BM*.down.fil"), the matching files of the directory.
glob_fil(dir) == [i \in 1..dir.fil |-> i]

\* Lines 95-105: glob the BM*.down.fil files and take this rank's slice.
MainSlice(d, r) ==
    /\ wk[d][r].pc = "slice"
    /\ LET all_fil_files == glob_fil(dirs[d])
       IN wk' = [wk EXCEPT ![d][r].fil_files = RankSlice(all_fil_files, r, NRANKS),
                           ![d][r].pc = "sizes"]
    /\ UNCHANGED <<analysis_dates, dirs, NRANKS, run, logs, filelist, prev,
                   appended, processed, futures, pool>>

\* Lines 111-113: the number of processes, then the threads per process,
\* whose default is os.cpu_count() // nprocess.
MainSizes(d, r) ==
    /\ wk[d][r].pc = "sizes"
    /\ LET w == wk[d][r]
           nprocess == IF w.args.workers # 0 THEN w.args.workers ELSE Len(w.fil_files)
       IN wk' = [wk EXCEPT ![d][r] =
                    IF w.args.threads # 0
                    THEN [w EXCEPT !.nprocess = nprocess, !.nthreads = w.args.threads,
                                   !.pc = "pool"]
                    ELSE IF nprocess = 0
                    THEN [w EXCEPT !.nprocess = nprocess, !.pc = "RAISED",
                                   !.err = "ZeroDivisionError"]
                    ELSE [w EXCEPT !.nprocess = nprocess,
                                   !.nthreads = w.cpu_count \div nprocess,
                                   !.pc = "pool"]]
    /\ UNCHANGED <<analysis_dates, dirs, NRANKS, run, logs, filelist, prev,
                   appended, processed, futures, pool>>

\* Line 115: Pool(processes=nprocess), which raises ValueError for a number
\* of processes below 1.
MainPool(d, r) ==
    /\ wk[d][r].pc = "pool"
    /\ wk' = [wk EXCEPT ![d][r] =
                 IF wk[d][r].nprocess < 1
                 THEN [@ EXCEPT !.pc = "RAISED", !.err = "ValueError"]
                 ELSE [@ EXCEPT !.pc = "map"]]
    /\ UNCHANGED <<analysis_dates, dirs, NRANKS, run, logs, filelist, prev,
                   appended, processed, futures, pool>>

\* Lines 116-119: pool.map(worker, fil_files), close and join, every
\* run_filtool returning.
MainMapOk(d, r) ==
    /\ wk[d][r].pc = "map"
    /\ wk' = [wk EXCEPT ![d][r].pc = "DONE"]
    /\ UNCHANGED <<analysis_dates, dirs, NRANKS, run, logs, filelist, prev,
                   appended, processed, futures, pool>>

\* Line 117: pool.map raises what a run_filtool raised (lines 59-64).
MainMapFail(d, r) ==
    /\ wk[d][r].pc = "map"
    /\ wk[d][r].fil_files # <<>>
    /\ wk' = [wk EXCEPT ![d][r].pc = "RAISED", ![d][r].err = "FiltoolError"]
    /\ UNCHANGED <<analysis_dates, dirs, NRANKS, run, logs, filelist, prev,
                   appended, processed, futures, pool>>

InitMain ==
    /\ analysis_dates = <<1>>
    /\ \E n \in 0..MaxRfiFiles : dirs = [d \in {1} |-> [raw |-> 0, fil |-> n]]
    /\ NRANKS \in 1..MaxRanks
    /\ run = 1
    /\ logs = [d \in {1} |-> <<>>]
    /\ filelist = [d \in {1} |-> <<>>]
    /\ \E workers \in 0..MaxArg : \E threads \in 0..MaxArg : \E cpu_count \in 1..MaxCpu :
          wk = [d \in {1} |-> [r \in 0..(NRANKS - 1) |->
                  NewMain(workers, threads, cpu_count)]]
    /\ prev = [d \in {1} |-> {}]
    /\ appended = [d \in {1} |-> {}]
    /\ processed = [d \in {1} |-> {}]
    /\ futures = NoFutures
    /\ pool = NoPool

NextMain ==
    \E d \in DOMAIN wk : \E r \in DOMAIN wk[d] :
        \/ MainSlice(d, r)
        \/ MainSizes(d, r)
        \/ MainPool(d, r)
        \/ MainMapOk(d, r)
        \/ MainMapFail(d, r)

SpecMain == InitMain /\ [][NextMain]_vars

\* ---- properties ---------------------------------------------------------------------
\* The positions of a worker's control at which its slice is computed.
Sliced(w) == w.pc \in {"open", "process", "close_list", "close_mem", "count",
                       "TIMING", "DONE", "RAISED"}

\* The (rank, position) pairs at which the slices of date d hold item x.
Owners(d, x) ==
    UNION {{<<r, i>> : i \in {j \in 1..Len(wk[d][r].FILES) : wk[d][r].FILES[j] = x}} :
             r \in DOMAIN wk[d]}

AllFiles(d) == Range(filter_by_ext(dirs[d], raw_or_fil(dirs[d])))

\* The list every rank of SpecPart partitions: the files not yet processed.
Remaining(d) ==
    {x \in AllFiles(d) : \A r \in DOMAIN wk[d] : x \notin wk[d][r].proc_files}

\* C1: partition coverage. For every total_count >= 0 and peer_count >= 1, once
\* every rank has computed its slice of the same list, every item of the list
\* is in exactly one slice and no slice holds anything else.
C1_PartitionCoverage ==
    (\A r \in DOMAIN wk[1] : wk[1][r].pc # "PARTITIONING")
        => /\ \A x \in Remaining(1) : Cardinality(Owners(1, x)) = 1
           /\ \A r \in DOMAIN wk[1] : Range(wk[1][r].FILES) \subseteq Remaining(1)

\* C1 witness: every rank has its slice of a non-empty list that is shorter
\* than the number of ranks, so that the last rank's slice starts past its end.
C1_Witness ==
    /\ \A r \in DOMAIN wk[1] : wk[1][r].pc # "PARTITIONING"
    /\ Cardinality(Remaining(1)) >= 1
    /\ NRANKS > Cardinality(Remaining(1)) + 1
    /\ wk[1][NRANKS - 1].FILES = <<>>

\* The CompletionRecords of a log: its records other than the configuration.
CompletionRecords(log) == SelectSeq(log, LAMBDA x : x # HDR)

IsPrefix(s, t) == Len(s) <= Len(t) /\ SubSeq(t, 1, Len(s)) = s

\* The items named by some record of some log of date d.
Recorded(d) == UNION {Range(CompletionRecords(logs[d][f])) : f \in DOMAIN logs[d]}

InLoop(w) == w.pc \in {"open", "process", "close_list", "close_mem", "count"}

NoInput(d) == raw_or_fil(dirs[d]) = "None"

\* C2: a CompletionRecord is authoritative. No peer of a run is ever at the
\* per-item step of an item whose record was appended in an earlier run.
C2_RecordAuthoritative ==
    \A d \in DOMAIN wk : \A r \in DOMAIN wk[d] :
        wk[d][r].pc = "process" => FILE(wk[d][r]) \notin prev[d]

\* C3: peer-count-change tolerance, skipping. In a run whose peer count
\* differs from that of the run before, with items completed before the run
\* (prev), the reconciliation of every peer has
\* collected every item completed before the run, and when every item was
\* completed every peer's slice is empty.
C3_ResumeSkipsCompleted ==
    \A d \in DOMAIN wk : \A r \in DOMAIN wk[d] :
        (run >= 2 /\ prev[d] # {}) =>
            /\ wk[d][r].pc = "PARTITIONING" => prev[d] \subseteq wk[d][r].proc_files
            /\ (Sliced(wk[d][r]) /\ AllFiles(d) \subseteq prev[d])
                  => wk[d][r].FILES = <<>>

\* C4: peer-count-change tolerance, coverage. In a run whose peer count
\* differs from that of the run before, with items completed before the run
\* (prev), once every peer has its slice, every
\* item not completed before the run is in exactly one slice and no slice
\* holds a completed item.
C4_ResumeCoversRemaining ==
    \A d \in DOMAIN wk :
        (run >= 2 /\ prev[d] # {} /\ \A r \in DOMAIN wk[d] : Sliced(wk[d][r]))
            => /\ \A x \in AllFiles(d) \ prev[d] : Cardinality(Owners(d, x)) = 1
               /\ \A r \in DOMAIN wk[d] : Range(wk[d][r].FILES) \cap prev[d] = {}

\* C5: checkpoint idempotence. In a run that follows a run which ended
\* cleanly on every peer, every peer's list after reconciliation is empty, no
\* peer enters the item loop, no item is processed and no record is appended.
C5_CleanRerunIsEmpty ==
    \A d \in DOMAIN wk :
        run >= 2 =>
            /\ \A r \in DOMAIN wk[d] :
                 /\ wk[d][r].pc = "PARTITIONING"
                       => RemoveProcessed(wk[d][r].FILES, wk[d][r].proc_files) = <<>>
                 /\ ~InLoop(wk[d][r])
            /\ processed[d] = {}
            /\ appended[d] = prev[d]

\* C6: crash safety. When the per-item step has failed on the (k+1)-th item
\* of a peer's slice, the exception has left the worker, the k items before it
\* are records of the peer's log that a reconciliation collects, and the
\* failing item and the items after it were not processed by the peer and are
\* named by no record.
C6_CrashSafety ==
    \A d \in DOMAIN wk : \A r \in DOMAIN wk[d] :
        LET w == wk[d][r]
        IN (w.pc = "RAISED" /\ w.err = "ItemProcessingError")
              => /\ \A j \in 1..w.k : w.FILES[j] \in Collected(unpickler(logs[d], r))
                 /\ \A j \in (w.k + 1)..Len(w.FILES) :
                       /\ <<r, w.FILES[j]>> \notin processed[d]
                       /\ w.FILES[j] \notin Recorded(d)

\* C7: write discipline. A step of the peer of rank R changes no history log
\* but the one named for rank R.
C7_WritesOwnLogOnly ==
    [][\A d \in DOMAIN wk : \A r \in DOMAIN wk[d] :
          (run' = run /\ wk'[d][r] # wk[d][r])
             => \A f \in DOMAIN logs'[d] :
                   f # r => (f \in DOMAIN logs[d] /\ logs'[d][f] = logs[d][f])]_vars

\* C8: append-only logs. Every step leaves every existing log in existence and
\* its sequence of CompletionRecords a prefix of the sequence it holds next.
C8_AppendOnly ==
    [][\A d \in DOMAIN logs : \A f \in DOMAIN logs[d] :
          /\ f \in DOMAIN logs'[d]
          /\ IsPrefix(CompletionRecords(logs[d][f]),
                      CompletionRecords(logs'[d][f]))]_vars

\* C9: no usable input. The worker of a date with neither raw nor filterbank
\* files does no reconciliation, partitioning or processing, creates no log,
\* appends no record, reads no start time and raises nothing.
C9_NoInputAborts ==
    \A d \in DOMAIN wk : \A r \in DOMAIN wk[d] :
        NoInput(d)
           => /\ wk[d][r].pc \in {"idle", "INIT", "DETECTING", "TIMING", "DONE", "RAISED"}
              /\ logs[d] = <<>>
              /\ appended[d] = {}
              /\ wk[d][r].err = "none"

\* C10: a date without input is not fatal. When process has ended on a list
\* of two or more dates of which exactly one had no input, and no per-item
\* step failed, process has returned and the worker of every other date is DONE.
C10_NoInputNonFatal ==
    (/\ pool.pc \in {"returned", "raised"}
     /\ Len(analysis_dates) >= 2
     /\ Cardinality({d \in DOMAIN wk : NoInput(d)}) = 1
     /\ \A d \in DOMAIN wk : wk[d][RANK].err # "ItemProcessingError")
        => /\ pool.pc = "returned"
           /\ \A d \in DOMAIN wk : ~NoInput(d) => wk[d][RANK].pc = "DONE"

\* ---- PipelineManager.process: failures ------------------------------------------
\* The date whose exception process holds once a result has raised.
Surfaced == analysis_dates[pool.i]

Raised(d) == wk[d][RANK].pc = "RAISED"

\* C11 as stated: pool failure. When process has ended and a worker raised,
\* process has raised, and the failure it raises is the one that occurred
\* earliest among the failures of its workers (taken here on dates that all
\* have input, where the only failures are those of the per-item step).
C11_SurfacesEarliestFailure ==
    /\ pool.pc = "returned" => \A d \in DOMAIN wk : ~Raised(d)
    /\ (pool.pc = "raised" /\ \A d \in DOMAIN wk : ~NoInput(d))
          => /\ Raised(Surfaced)
             /\ wk[Surfaced][RANK].nth = 1

\* C11 amended: pool failure. When process has ended and a worker raised,
\* process has raised, and the failure it raises is the one of the failed
\* WorkUnit listed first: the results of the WorkUnits listed before it were
\* all taken without a failure, whenever the failures occurred.
C11_SurfacesFirstListedFailure ==
    /\ pool.pc = "returned" => \A d \in DOMAIN wk : ~Raised(d)
    /\ pool.pc = "raised"
          => /\ Raised(Surfaced)
             /\ pool.exc = wk[Surfaced][RANK].err
             /\ \A h \in 1..(pool.i - 1) : futures[analysis_dates[h]] = "FINISHED"

\* C11 witness: process has raised the failure of a WorkUnit that failed
\* second, a WorkUnit listed after it having failed first.
C11_Witness ==
    /\ pool.pc = "raised"
    /\ \A d \in DOMAIN wk : ~NoInput(d)
    /\ wk[Surfaced][RANK].nth = 2
    /\ \E j \in (pool.i + 1)..Len(analysis_dates) :
          /\ Raised(analysis_dates[j])
          /\ wk[analysis_dates[j]][RANK].nth = 1

\* ---- slice boundaries ------------------------------------------------------------
\* ceil(total_count / peer_count).
per_peer(total_count, peer_count) == (total_count + peer_count - 1) \div peer_count

\* The list every rank of SpecPart has after reconciliation, in listing order.
ReconciledList(d) == SortedSeq(Remaining(d))

\* The positions lo+1..hi of a list, nothing when hi <= lo.
Positions(L, lo, hi) == [j \in 1..(IF hi > lo THEN hi - lo ELSE 0) |-> L[lo + j]]

\* C12: slice boundaries. With per_peer = ceil(total_count / peer_count), the
\* slice of a rank i below the last is the items at the positions
\* [i * per_peer, (i+1) * per_peer) of the reconciled list, the slice of the
\* last rank is the items at [(peer_count-1) * per_peer, total_count), both
\* ends clamped to the list.
C12_SliceBoundaries ==
    \A r \in DOMAIN wk[1] :
        wk[1][r].pc # "PARTITIONING"
           => LET L == ReconciledList(1)
                  total_count == Len(L)
                  per == per_peer(total_count, NRANKS)
                  lo == Min(r * per, total_count)
                  hi == IF r = NRANKS - 1 THEN total_count
                        ELSE Min((r + 1) * per, total_count)
              IN wk[1][r].FILES = Positions(L, lo, hi)

\* C12 witness: 10 items on 3 peers, every peer has its slice: [0,4), [4,8)
\* and [8,10).
C12_Witness ==
    /\ NRANKS = 3
    /\ ReconciledList(1) = <<1, 2, 3, 4, 5, 6, 7, 8, 9, 10>>
    /\ wk[1][0].FILES = <<1, 2, 3, 4>>
    /\ wk[1][1].FILES = <<5, 6, 7, 8>>
    /\ wk[1][2].FILES = <<9, 10>>
    /\ \A r \in DOMAIN wk[1] : wk[1][r].pc # "PARTITIONING"

\* ---- empty WorkUnit ----------------------------------------------------------------
\* The worker found a source and its reconciliation collected every listed item.
NothingLeft(d, w) == w.EXT # "None" /\ AllFiles(d) \subseteq w.proc_files

\* C13: empty WorkUnit. A peer whose item list is empty after reconciliation
\* has an empty slice, never enters the item loop, has processed no item in
\* the run, raises nothing and is at the end of the call or DONE, for every
\* peer count.
C13_EmptyWorkUnit ==
    \A d \in DOMAIN wk : \A r \in DOMAIN wk[d] :
        LET w == wk[d][r]
        IN (Sliced(w) /\ NothingLeft(d, w))
              => /\ w.FILES = <<>>
                 /\ w.pc \in {"TIMING", "DONE"}
                 /\ w.err = "none"
                 /\ \A x \in AllFiles(d) : <<r, x>> \notin processed[d]

\* C13 witness: in a run of several peers over a date whose items were all
\* completed before, a peer that is not the first has ended DONE with nothing
\* left to do.
C13_Witness ==
    \E d \in DOMAIN wk : \E r \in DOMAIN wk[d] :
        /\ r >= 1
        /\ wk[d][r].pc = "DONE"
        /\ NothingLeft(d, wk[d][r])
        /\ AllFiles(d) # {}
        /\ processed[d] = {}

\* ---- the item loop ------------------------------------------------------------------
\* The worker is past the per-item step of the item its loop is at.
PastStep(w) == w.pc \in {"close_list", "close_mem", "count"}

\* The items named by the CompletionRecords in the log file of rank r.
InLog(d, r) == Range(CompletionRecords(unpickler(logs[d], r)))

CountEntry(d) == LogEntry(d, "Number of beams processed so far")

\* C14: per-item step order. A peer deals with its items in partition order,
\* one at a time: the items before the current one were processed by it and
\* their count was emitted, no later item was touched, and for the current
\* item the per-item step comes first, then the CompletionRecord in the
\* peer's own log, then the ledger line: whenever the ledger holds the line
\* of the current item, the log holds its record.
C14_PerItemOrder ==
    \A d \in DOMAIN wk : \A r \in DOMAIN wk[d] :
        LET w == wk[d][r]
        IN InLoop(w)
              => /\ \A j \in 1..w.k : <<r, w.FILES[j]>> \in processed[d]
                 /\ \A j \in (w.k + 2)..Len(w.FILES) : <<r, w.FILES[j]>> \notin processed[d]
                 /\ w.k >= 1 => CountEntry(d) \in w.logged
                 /\ PastStep(w) => <<r, FILE(w)>> \in processed[d]
                 /\ (PastStep(w) /\ FILE(w) \in Range(filelist[d]))
                       => FILE(w) \in InLog(d, r)

\* C15: durability before progress. Whenever a peer is at the per-item step
\* of the (k+1)-th item of its slice, the log file of its rank holds the
\* CompletionRecords of the first k items.
C15_DurableBeforeNext ==
    \A d \in DOMAIN wk : \A r \in DOMAIN wk[d] :
        LET w == wk[d][r]
        IN w.pc = "process" => \A j \in 1..w.k : w.FILES[j] \in InLog(d, r)

\* ---- lifecycle ------------------------------------------------------------------------
\* The place of a control position in INIT, DETECTING, RECONCILING,
\* PARTITIONING, PROCESSING, end of the call.
Phase(w) ==
    CASE w.pc = "idle" -> 0
      [] w.pc = "INIT" -> 1
      [] w.pc = "DETECTING" -> 2
      [] w.pc \in {"RECONCILING", "read", "write_hdr"} -> 3
      [] w.pc = "PARTITIONING" -> 4
      [] InLoop(w) -> 5
      [] w.pc = "TIMING" -> 6
      [] OTHER -> 7

\* A step of a worker from w to v of date d keeps the order of the phases:
\* never backward, never past a phase other than by a PROCESSING of zero
\* items, by the abort of a date without input, or by raising; and the slice
\* is taken when every log of the list was read, from the items that the
\* reconciliation did not collect.
InOrder(d, w, v) ==
    /\ Phase(v) >= Phase(w)
    /\ \/ Phase(v) <= Phase(w) + 1
       \/ w.pc = "PARTITIONING" /\ v.pc = "TIMING" /\ v.FILES = <<>>
       \/ w.pc = "DETECTING" /\ v.pc = "TIMING" /\ NoInput(d)
       \/ v.pc = "RAISED"
    /\ w.pc = "PARTITIONING"
          => /\ w.metas_file_list = <<>>
             /\ Range(v.FILES) \cap w.proc_files = {}
             /\ Range(v.FILES) \subseteq Range(w.FILES)

\* C16 as stated: lifecycle. Every step of a Unit Worker keeps the order
\* INIT, DETECTING, RECONCILING, PARTITIONING, PROCESSING, DONE, the slice is
\* taken from the reconciled list, and a worker that has ended is DONE or
\* has aborted on a date without usable input.
C16_OnlyDoneOrAborted ==
    [][\A d \in DOMAIN wk : \A r \in DOMAIN wk[d] :
          (run' = run /\ wk'[d][r] # wk[d][r])
             => /\ InOrder(d, wk[d][r], wk'[d][r])
                /\ Terminal(wk'[d][r])
                      => (wk'[d][r].pc = "DONE" \/ NoInput(d))]_vars

\* C16 amended: lifecycle. As stated, with a third terminal state: a worker
\* that has ended is DONE, or has aborted on a date without usable input, or
\* has failed in PROCESSING, at the per-item step that raised.
C16_DoneAbortedOrFailed ==
    [][\A d \in DOMAIN wk : \A r \in DOMAIN wk[d] :
          (run' = run /\ wk'[d][r] # wk[d][r])
             => /\ InOrder(d, wk[d][r], wk'[d][r])
                /\ Terminal(wk'[d][r])
                      => \/ wk'[d][r].pc = "DONE" /\ ~NoInput(d)
                         \/ NoInput(d) /\ wk[d][r].pc = "TIMING"
                                       /\ wk'[d][r].metas_file_list = <<>>
                                       /\ wk'[d][r].FILES = <<>>
                         \/ /\ wk[d][r].pc = "process"
                            /\ wk'[d][r].err = "ItemProcessingError"]_vars

\* C16 witness: in a run after the first, a worker that went through every
\* phase and completed an item has failed at the per-item step of the next.
C16_Witness ==
    \E d \in DOMAIN wk : \E r \in DOMAIN wk[d] :
        /\ wk[d][r].pc = "RAISED"
        /\ wk[d][r].err = "ItemProcessingError"
        /\ wk[d][r].k >= 1
        /\ run >= 2

\* ---- logging of failures ------------------------------------------------------------
\* The log entry e carries the peer index r, the WorkUnit d and the item x.
CarriesContext(e, r, d, x) ==
    /\ e.name = d
    /\ "rank" \in DOMAIN e /\ e.rank = r
    /\ "item" \in DOMAIN e /\ e.item = x

\* C17: errors are logged before they propagate. When the per-item step has
\* failed and the failure has left the Unit Worker, the worker's logger has
\* written an entry that carries the peer index, the WorkUnit and the item.
C17_FailureLogged ==
    \A d \in DOMAIN wk : \A r \in DOMAIN wk[d] :
        LET w == wk[d][r]
        IN (w.pc = "RAISED" /\ w.err = "ItemProcessingError")
              => \E e \in w.logged : CarriesContext(e, r, d, FILE(w))

\* ---- fan-out and join -----------------------------------------------------------------
Ended == pool.pc \in {"returned", "raised"}

\* The worker of date d was called and its call has ended.
RanToEnd(d) == futures[d] \in {"FINISHED", "FAILED"} /\ Terminal(wk[d][RANK])

\* The worker of date d was never called.
NeverRan(d) == futures[d] = "CANCELLED" /\ wk[d][RANK].pc = "idle"

\* C18 as stated: fan-out and join. When process has given control back to
\* its caller, the Unit Worker of every WorkUnit of the list was run and has
\* finished, for any pool width (taken here on dates that all have input).
C18_EveryWorkUnitRan ==
    (Ended /\ \A d \in DOMAIN wk : ~NoInput(d))
        => \A d \in DOMAIN wk : RanToEnd(d)

\* C18 amended: fan-out and join. When process has given control back to its
\* caller, every Unit Worker that was started has finished and no WorkUnit is
\* left waiting; when process returned, the Unit Worker of every WorkUnit ran
\* and is DONE; when it raised, every WorkUnit either ran to its end or was
\* cancelled before its worker was called.
C18_JoinAndCancel ==
    Ended
        => /\ \A d \in DOMAIN wk : RanToEnd(d) \/ NeverRan(d)
           /\ pool.pc = "returned"
                 => \A d \in DOMAIN wk : RanToEnd(d) /\ wk[d][RANK].pc = "DONE"
           /\ (\E d \in DOMAIN wk : NeverRan(d)) => pool.pc = "raised"

\* C18 witness: process has raised on a list with more WorkUnits than the
\* pool is wide, all with input; one WorkUnit failed at its per-item step,
\* one ran to DONE and one was cancelled.
C18_Witness ==
    /\ pool.pc = "raised"
    /\ pool.width < Len(analysis_dates)
    /\ \A d \in DOMAIN wk : ~NoInput(d)
    /\ \E d \in DOMAIN wk : NeverRan(d)
    /\ \E d \in DOMAIN wk : wk[d][RANK].pc = "DONE"

\* ---- reconciliation --------------------------------------------------------------------
\* The log a worker at "read" or "write_hdr" is dealing with.
CurrentLog(w) == Head(w.metas_file_list)

\* C19: first-run bootstrap and collection. A reconciliation that finds no
\* log of any rank takes the names of the logs of ranks 0..N-1; the log it
\* initialises exists afterwards and holds zero CompletionRecords; reading a
\* log adds to the completed set exactly the names of all the
\* CompletionRecords the log holds (nothing for a log without one); and the
\* first peer to reconcile in a first run ends with the N logs of ranks
\* 0..N-1 and an empty completed set.
C19_BootstrapAndCollect ==
    [][\A d \in DOMAIN wk : \A r \in DOMAIN wk[d] :
          LET w == wk[d][r]
              v == wk'[d][r]
          IN (run' = run /\ v # w)
                => /\ (w.pc = "RECONCILING" /\ DOMAIN logs[d] = {})
                         => v.metas_file_list = [i \in 1..NRANKS |-> i - 1]
                   /\ w.pc = "write_hdr"
                         => /\ CurrentLog(w) \in DOMAIN logs'[d]
                            /\ CompletionRecords(logs'[d][CurrentLog(w)]) = <<>>
                   /\ w.pc = "read"
                         => v.proc_files = w.proc_files \cup
                               Range(CompletionRecords(unpickler(logs[d], CurrentLog(w))))
                   /\ (v.pc = "PARTITIONING" /\ run = 1 /\ appended[d] = {})
                         => /\ v.proc_files = {}
                            /\ DOMAIN logs'[d] = 0..(NRANKS - 1)
                            /\ \A f \in DOMAIN logs'[d] :
                                  CompletionRecords(logs'[d][f]) = <<>>]_vars

\* ---- detection ------------------------------------------------------------------------
\* The worker has the result of raw_or_fil.
Detected(w) == w.pc \notin {"idle", "INIT", "DETECTING"}

\* C20: detection precedence. Once a worker has detected the source of its
\* date, the source is RAW when the directory holds a raw file, with or
\* without filterbank files, PREPARED when it holds no raw file and a
\* filterbank file, NONE when it holds neither; and the files it lists are
\* the files of that kind.
C20_DetectionPrecedence ==
    \A d \in DOMAIN wk : \A r \in DOMAIN wk[d] :
        LET w == wk[d][r]
        IN Detected(w)
              => /\ dirs[d].raw >= 1 => w.EXT = ".raw"
                 /\ (dirs[d].raw = 0 /\ dirs[d].fil >= 1) => w.EXT = ".fil"
                 /\ (dirs[d].raw = 0 /\ dirs[d].fil = 0) => w.EXT = "None"
                 /\ w.pc = "RECONCILING"
                       => Len(w.FILES) = IF dirs[d].raw >= 1 THEN dirs[d].raw
                                         ELSE dirs[d].fil

\* C20 witness: a worker has detected RAW in a directory that holds raw
\* files and more filterbank files, and has listed the raw files.
C20_Witness ==
    \E d \in DOMAIN wk : \E r \in DOMAIN wk[d] :
        /\ wk[d][r].pc = "RECONCILING"
        /\ dirs[d].raw >= 1
        /\ dirs[d].fil > dirs[d].raw
        /\ wk[d][r].EXT = ".raw"
        /\ Len(wk[d][r].FILES) = dirs[d].raw

\* ---- peers of one run -----------------------------------------------------------------
\* The ranks that went through the per-item step of item x in the current run.
ProcessedBy(d, x) == {r \in DOMAIN wk[d] : <<r, x>> \in processed[d]}

\* C21: no duplicate processing within a run. Whatever the interleaving of
\* the peers' reconcile, partition and per-item steps, no item went through
\* the per-item step on two different peers of the run.
C21_NoDuplicateInRun ==
    \A d \in DOMAIN wk : \A x \in AllFiles(d) : Cardinality(ProcessedBy(d, x)) <= 1

\* C22: run completeness under interleaving. When every peer of a run has
\* reached DONE, every item of the date has a CompletionRecord in some log.
C22_RunComplete ==
    \A d \in DOMAIN wk :
        (\A r \in DOMAIN wk[d] : wk[d][r].pc = "DONE")
            => AllFiles(d) \subseteq Recorded(d)

\* ---- log header ------------------------------------------------------------------------
\* C23: log header invariant. Every history log that holds a record holds the
\* pickled configuration as its first record, whether bootstrap created the
\* log or the append of its rank did.
C23_HeaderFirst ==
    \A d \in DOMAIN logs : \A f \in DOMAIN logs[d] :
        logs[d][f] # <<>> => Head(logs[d][f]) = HDR

\* ---- ledger and records -------------------------------------------------------------
\* The number of lines of the ledger of date d that name item x.
LedgerLines(d, x) == Cardinality({i \in 1..Len(filelist[d]) : filelist[d][i] = x})

\* The (log, position) pairs of the CompletionRecords of date d that name x.
RecordsOf(d, x) ==
    UNION {{<<f, i>> : i \in {j \in 1..Len(logs[d][f]) :
                                 logs[d][f][j] # HDR /\ logs[d][f][j] = x}} :
             f \in DOMAIN logs[d]}

\* The CompletionRecords of date d, in all its logs.
TotalRecords(d) == UNION {RecordsOf(d, x) : x \in AllFiles(d)}

\* No peer is between the start of a per-item step and the close of the two
\* files that follows it.
NoneInFlight(d) ==
    \A r \in DOMAIN wk[d] : wk[d][r].pc \notin {"process", "close_list", "close_mem"}

\* C24: ledger/record agreement. Whenever no per-item step of a date is in
\* flight, the ledger holds as many lines of every item as the logs hold
\* CompletionRecords of it; and whenever a peer is about to count the lines of
\* the ledger, their number is the number of CompletionRecords of the date.
C24_LedgerMatchesRecords ==
    \A d \in DOMAIN wk :
        /\ NoneInFlight(d)
              => \A x \in AllFiles(d) : LedgerLines(d, x) = Cardinality(RecordsOf(d, x))
        /\ \A r \in DOMAIN wk[d] :
              wk[d][r].pc = "count" => Len(filelist[d]) = Cardinality(TotalRecords(d))

\* ---- rfi_filter_filtool.main: empty slice ----------------------------------------------
\* The rank has its slice, which is empty, and neither option was given.
EmptySliceNoOptions(w) ==
    /\ w.pc # "slice"
    /\ w.fil_files = <<>>
    /\ w.args.workers = 0
    /\ w.args.threads = 0

\* C25: empty slice in rfi_filter_filtool. A rank whose slice is empty, with
\* neither --workers nor --threads given, raises nothing, and it creates its
\* pool with at least one process.
C25_EmptySliceFinishes ==
    \A d \in DOMAIN wk : \A r \in DOMAIN wk[d] :
        LET w == wk[d][r]
        IN EmptySliceNoOptions(w)
              => /\ w.err = "none"
                 /\ w.pc \in {"map", "DONE"} => w.nprocess >= 1

====
